---- MODULE Spec2Model ----
(***************************************************************************)
(* A model of the notebook "Instruction Finetuning LLMs with QLoRA for     *)
(* RAG": the dataset loader, the prompt formatter and the sequence of      *)
(* notebook cells that provision the model and the tokenizer, inject the   *)
(* adapters, build the trainer, train and save.                            *)
(*                                                                         *)
(* Text is modelled by TLA+ strings: \o is concatenation, Len the number   *)
(* of characters and SubSeq a slice, so the formatter builds real text.    *)
(***************************************************************************)
EXTENDS Integers, Sequences, FiniteSets, TLC

VARIABLES pc, is_peft, hub, dataset, model, tokenizer, trainer, calls, err,
          rows, log

pvars == <<pc, is_peft, hub, dataset, model, tokenizer, trainer, calls, err>>
fvars == <<rows, log>>
vars == <<pc, is_peft, hub, dataset, model, tokenizer, trainer, calls, err, rows, log>>

(***************************************************************************)
(* Bounds of the model.                                                    *)
(***************************************************************************)
\* longest record sequence the dataset source returns
MaxRecords == 2
\* number of format_instruction calls a behaviour makes
MaxCalls == 3

(***************************************************************************)
(* The dataset source: rows of databricks-dolly-15k have the columns       *)
(* instruction, context, response and category.                            *)
(***************************************************************************)
Categories ==
    {"closed_qa", "information_extraction", "open_qa", "brainstorming", "summarization"}

HubInstructions == {"who?", "### Context:"}

HubRecords ==
    [instruction : HubInstructions, context : {""}, response : {"yes"},
     category : Categories]

RECURSIVE SeqsUpTo(_, _)
SeqsUpTo(S, n) ==
    IF n = 0 THEN {<<>>}
    ELSE LET shorter == SeqsUpTo(S, n - 1)
         IN  shorter \cup {Append(s, x) : s \in {t \in shorter : Len(t) = n - 1}, x \in S}

HubDatasets == SeqsUpTo(HubRecords, MaxRecords)

(***************************************************************************)
(* load_modified_dataset, statement by statement.  A data frame is a       *)
(* sequence of rows (records keyed by column name) with a parallel         *)
(* sequence of index labels.                                               *)
(***************************************************************************)
\* dataset.to_pandas(): the rows with a fresh RangeIndex 0..n-1
to_pandas(ds) == [index |-> [i \in 1..Len(ds) |-> i - 1], data |-> ds]

\* df['keep'] = True: a new column holding True in every row
AddKeep(df) ==
    [index |-> df.index,
     data  |-> [i \in 1..Len(df.data) |->
                  [c \in DOMAIN df.data[i] \cup {"keep"} |->
                      IF c = "keep" THEN TRUE ELSE df.data[i][c]]]]

\* the list given to isin
KeptCategories == {"closed_qa", "information_extraction", "open_qa"}

\* the mask with | in place of &
MaskEither(df) ==
    [i \in 1..Len(df.data) |->
        (df.data[i]["category"] \in KeptCategories) \/ df.data[i]["keep"]]

\* (df['category'].isin([...])) & df['keep']: the boolean mask, one entry per row
Mask(df) ==
    [i \in 1..Len(df.data) |->
        (df.data[i]["category"] \in KeptCategories) /\ df.data[i]["keep"]]

\* df[mask]: the rows whose mask entry is True, in order, keeping their labels
RECURSIVE MaskedPositions(_, _)
MaskedPositions(mask, i) ==
    IF i > Len(mask) THEN <<>>
    ELSE IF mask[i] THEN <<i>> \o MaskedPositions(mask, i + 1)
         ELSE MaskedPositions(mask, i + 1)

BooleanIndex(df, mask) ==
    LET pos == MaskedPositions(mask, 1)
    IN  [index |-> [k \in 1..Len(pos) |-> df.index[pos[k]]],
         data  |-> [k \in 1..Len(pos) |-> df.data[pos[k]]]]

\* df[['instruction', 'context', 'response']]: the named columns only
SelectedColumns == {"instruction", "context", "response"}

SelectColumns(df, cols) ==
    [index |-> df.index,
     data  |-> [i \in 1..Len(df.data) |-> [c \in cols |-> df.data[i][c]]]]

\* Dataset.from_pandas(df, preserve_index): the index becomes the column
\* __index_level_0__ when it is kept, and is dropped otherwise
from_pandas(df, preserve_index) ==
    IF preserve_index
    THEN [i \in 1..Len(df.data) |->
            [c \in DOMAIN df.data[i] \cup {"__index_level_0__"} |->
                IF c = "__index_level_0__" THEN df.index[i] ELSE df.data[i][c]]]
    ELSE df.data

\* load_modified_dataset without preserve_index = False
load_modified_dataset_indexed(source) ==
    LET df0 == to_pandas(source)
        df1 == AddKeep(df0)
        df2 == BooleanIndex(df1, Mask(df1))
    IN  from_pandas(SelectColumns(df2, SelectedColumns), TRUE)

load_modified_dataset(source) ==
    LET df0 == to_pandas(source)
        df1 == AddKeep(df0)
        df2 == BooleanIndex(df1, Mask(df1))
    IN  from_pandas(SelectColumns(df2, SelectedColumns), FALSE)

(***************************************************************************)
(* format_instruction: the f-string, one piece per source line.            *)
(***************************************************************************)
\* format_instruction without the newline that closes the f-string
format_instruction_unterminated(sample) ==
       "### Context:\n"
    \o sample["context"] \o "\n"
    \o "\n"
    \o "### Question:\n"
    \o "Using only the context above, " \o sample["instruction"] \o "\n"
    \o "\n"
    \o "### Response:\n"
    \o sample["response"]

\* format_instruction leaving out the context section of a sample without context
format_instruction_skip_empty(sample) ==
       (IF sample["context"] = "" THEN ""
        ELSE "### Context:\n" \o sample["context"] \o "\n" \o "\n")
    \o "### Question:\n"
    \o "Using only the context above, " \o sample["instruction"] \o "\n"
    \o "\n"
    \o "### Response:\n"
    \o sample["response"] \o "\n"

format_instruction(sample) ==
       "### Context:\n"
    \o sample["context"] \o "\n"
    \o "\n"
    \o "### Question:\n"
    \o "Using only the context above, " \o sample["instruction"] \o "\n"
    \o "\n"
    \o "### Response:\n"
    \o sample["response"] \o "\n"

\* a formatter that fills in a missing context in the caller's dict
SampleAfterFormatFilled(sample) ==
    [sample EXCEPT !["context"] = IF @ = "" THEN "None" ELSE @]

\* The sample a caller holds after format_instruction(sample) has returned:
\* the dict is passed by reference and the body assigns to none of its keys.
SampleAfterFormat(sample) == sample

(***************************************************************************)
(* The notebook, statement by statement, in cell order.  pc names the      *)
(* statement about to run; calls lists the statements run so far; err is   *)
(* the exception that reached the top level, "none" while there is none.   *)
(***************************************************************************)
NoDataset == [defined |-> FALSE, data |-> <<>>]

NoTokenizer ==
    [loaded |-> FALSE, pad_token |-> "unset", eos_token |-> "unset",
     padding_side |-> "unset"]

NoTrainer ==
    [built |-> FALSE, model |-> "undefined", train_dataset |-> NoDataset,
     tokenizer |-> NoTokenizer, packing |-> FALSE]

\* what AutoTokenizer.from_pretrained may hand back: the tokenizer files on
\* the hub decide the special tokens and the default padding side
HubPadTokens == {"None", "</s>", "<pad>"}
HubEosTokens == {"</s>", "<|endoftext|>"}
HubPaddingSides == {"left", "right"}

\* a swapped last cell: save_model() written before train()
FollowingSaveFirst(stage) ==
    CASE stage = "load_dataset"    -> "from_pretrained"
      [] stage = "from_pretrained" -> "tokenizer"
      [] stage = "tokenizer"       -> "pad_token"
      [] stage = "pad_token"       -> "padding_side"
      [] stage = "padding_side"    -> "prepare_kbit"
      [] stage = "prepare_kbit"    -> "adapters"
      [] stage = "adapters"        -> "trainer"
      [] stage = "trainer"         -> "save_model"
      [] stage = "save_model"      -> "train"
      [] stage = "train"           -> "done"

\* the statement that runs after stage has returned: cells run top to bottom
Following(stage) ==
    CASE stage = "load_dataset"    -> "from_pretrained"
      [] stage = "from_pretrained" -> "tokenizer"
      [] stage = "tokenizer"       -> "pad_token"
      [] stage = "pad_token"       -> "padding_side"
      [] stage = "padding_side"    -> "prepare_kbit"
      [] stage = "prepare_kbit"    -> "adapters"
      [] stage = "adapters"        -> "trainer"
      [] stage = "trainer"         -> "train"
      [] stage = "train"           -> "save_model"
      [] stage = "save_model"      -> "done"

\* a last cell that swallows the exception of train() and goes on to save
RaiseSwallowed(stage) == IF stage = "train" THEN "save_model" ELSE "aborted"

\* where control goes when stage raises: no statement is inside a try block,
\* so the exception ends the run
Raise(stage) == "aborted"

\* tokenizer.pad_token = tokenizer.eos_token
SetPadToken(tok) == [tok EXCEPT !.pad_token = tok.eos_token]

\* the assignment with "left"
SetPaddingSideLeft(tok) == [tok EXCEPT !.padding_side = "left"]

\* tokenizer.padding_side = "right"
SetPaddingSide(tok) == [tok EXCEPT !.padding_side = "right"]

Init ==
    /\ pc = "load_dataset"
    /\ is_peft \in BOOLEAN
    /\ hub \in HubDatasets
    /\ dataset = NoDataset
    /\ model = "undefined"
    /\ tokenizer = NoTokenizer
    /\ trainer = NoTrainer
    /\ calls = <<>>
    /\ err = "none"
    /\ rows = <<>>
    /\ log = <<>>

\* dataset = load_modified_dataset(): load_dataset raises when the source is
\* unreachable
LoadDataset ==
    /\ pc = "load_dataset"
    /\ calls' = Append(calls, [fn |-> "load_dataset"])
    /\ \E ok \in BOOLEAN :
          IF ok
          THEN /\ dataset' = [defined |-> TRUE, data |-> load_modified_dataset(hub)]
               /\ pc' = Following("load_dataset")
               /\ err' = err
          ELSE /\ dataset' = dataset
               /\ pc' = Raise("load_dataset")
               /\ err' = "load_dataset"
    /\ UNCHANGED <<is_peft, hub, model, tokenizer, trainer, rows, log>>

\* model = Auto(Peft)ModelForCausalLM.from_pretrained(...);
\* model.config.pretraining_tp = 1.  The name AutoPeftModelForCausalLM is
\* imported nowhere, so the is_peft branch raises NameError.
FromPretrained ==
    /\ pc = "from_pretrained"
    /\ calls' = Append(calls, [fn |-> "from_pretrained"])
    /\ \E ok \in BOOLEAN :
          IF ok /\ ~is_peft
          THEN /\ model' = "quantized"
               /\ pc' = Following("from_pretrained")
               /\ err' = err
          ELSE /\ model' = model
               /\ pc' = Raise("from_pretrained")
               /\ err' = "from_pretrained"
    /\ UNCHANGED <<is_peft, hub, dataset, tokenizer, trainer, rows, log>>

\* tokenizer = AutoTokenizer.from_pretrained(model_id)
LoadTokenizer ==
    /\ pc = "tokenizer"
    /\ calls' = Append(calls, [fn |-> "tokenizer"])
    /\ \E ok \in BOOLEAN :
          IF ok
          THEN /\ \E pad \in HubPadTokens, eos \in HubEosTokens, side \in HubPaddingSides :
                     tokenizer' = [loaded |-> TRUE, pad_token |-> pad,
                                   eos_token |-> eos, padding_side |-> side]
               /\ pc' = Following("tokenizer")
               /\ err' = err
          ELSE /\ tokenizer' = tokenizer
               /\ pc' = Raise("tokenizer")
               /\ err' = "tokenizer"
    /\ UNCHANGED <<is_peft, hub, dataset, model, trainer, rows, log>>

AssignPadToken ==
    /\ pc = "pad_token"
    /\ calls' = Append(calls, [fn |-> "pad_token"])
    /\ tokenizer' = SetPadToken(tokenizer)
    /\ pc' = Following("pad_token")
    /\ UNCHANGED <<is_peft, hub, dataset, model, trainer, err, rows, log>>

AssignPaddingSide ==
    /\ pc = "padding_side"
    /\ calls' = Append(calls, [fn |-> "padding_side"])
    /\ tokenizer' = SetPaddingSide(tokenizer)
    /\ pc' = Following("padding_side")
    /\ UNCHANGED <<is_peft, hub, dataset, model, trainer, err, rows, log>>

\* model = prepare_model_for_kbit_training(model), in both branches
PrepareKbit ==
    /\ pc = "prepare_kbit"
    /\ calls' = Append(calls, [fn |-> "prepare_kbit"])
    /\ \E ok \in BOOLEAN :
          IF ok
          THEN /\ model' = "kbit_prepared"
               /\ pc' = Following("prepare_kbit")
               /\ err' = err
          ELSE /\ model' = model
               /\ pc' = Raise("prepare_kbit")
               /\ err' = "prepare_kbit"
    /\ UNCHANGED <<is_peft, hub, dataset, tokenizer, trainer, rows, log>>

\* model._mark_only_adapters_as_trainable() when is_peft, else
\* model = get_peft_model(model, peft_config)
Adapters ==
    /\ pc = "adapters"
    /\ calls' = Append(calls, [fn |-> "adapters"])
    /\ \E ok \in BOOLEAN :
          IF ok
          THEN /\ model' = IF is_peft THEN "adapters_marked" ELSE "peft"
               /\ pc' = Following("adapters")
               /\ err' = err
          ELSE /\ model' = model
               /\ pc' = Raise("adapters")
               /\ err' = "adapters"
    /\ UNCHANGED <<is_peft, hub, dataset, tokenizer, trainer, rows, log>>

\* trainer = SFTTrainer(model=model, train_dataset=dataset,
\* tokenizer=tokenizer, ..., packing=True, ...)
BuildTrainer ==
    /\ pc = "trainer"
    /\ calls' = Append(calls, [fn |-> "trainer"])
    /\ \E ok \in BOOLEAN :
          IF ok
          THEN /\ trainer' = [built |-> TRUE, model |-> model,
                              train_dataset |-> dataset, tokenizer |-> tokenizer,
                              packing |-> TRUE]
               /\ pc' = Following("trainer")
               /\ err' = err
          ELSE /\ trainer' = trainer
               /\ pc' = Raise("trainer")
               /\ err' = "trainer"
    /\ UNCHANGED <<is_peft, hub, dataset, model, tokenizer, rows, log>>

\* trainer.train(resume_from_checkpoint=False)
Train ==
    /\ pc = "train"
    /\ calls' = Append(calls, [fn |-> "train", resume_from_checkpoint |-> FALSE])
    /\ \E ok \in BOOLEAN :
          IF ok
          THEN /\ pc' = Following("train")
               /\ err' = err
          ELSE /\ pc' = Raise("train")
               /\ err' = "train"
    /\ UNCHANGED <<is_peft, hub, dataset, model, tokenizer, trainer, rows, log>>

\* trainer.save_model()
SaveModel ==
    /\ pc = "save_model"
    /\ calls' = Append(calls, [fn |-> "save_model"])
    /\ \E ok \in BOOLEAN :
          IF ok
          THEN /\ pc' = Following("save_model")
               /\ err' = err
          ELSE /\ pc' = Raise("save_model")
               /\ err' = "save_model"
    /\ UNCHANGED <<is_peft, hub, dataset, model, tokenizer, trainer, rows, log>>

Next ==
    \/ LoadDataset
    \/ FromPretrained
    \/ LoadTokenizer
    \/ AssignPadToken
    \/ AssignPaddingSide
    \/ PrepareKbit
    \/ Adapters
    \/ BuildTrainer
    \/ Train
    \/ SaveModel

Spec == Init /\ [][Next]_vars

(***************************************************************************)
(* The formatter under repeated calls.  rows is a dataset the caller       *)
(* holds; log records, call by call, the row passed and the text returned. *)
(***************************************************************************)
Contexts == {"", "The sky is blue.", "### Question:"}
Instructions == {"", "summarize this", "### Response:"}
Responses == {"", "Sky: blue.", "### Context:"}

AllSamples == [instruction : Instructions, context : Contexts, response : Responses]

\* the fields of s that differ from those of t
Differing(s, t) == {c \in {"instruction", "context", "response"} : s[c] # t[c]}

\* the samples the formatter is tried on: the sample of the specification,
\* every sample that differs from it in one field, the sample whose fields
\* are all empty and the sample whose fields are all headers
Samples ==
    {s \in AllSamples :
        Cardinality(Differing(s, [instruction |-> "summarize this",
                                  context |-> "The sky is blue.",
                                  response |-> "Sky: blue."])) <= 1}
    \cup {[instruction |-> "", context |-> "", response |-> ""],
          [instruction |-> "### Response:", context |-> "### Question:",
           response |-> "### Context:"]}

\* number of rows of the dataset the formatter is called on
FormatRows == 2

InitFormat ==
    /\ rows \in [1..FormatRows -> Samples]
    /\ log = <<>>
    /\ pc = "format" /\ is_peft = FALSE /\ hub = <<>>
    /\ dataset = NoDataset /\ model = "undefined"
    /\ tokenizer = NoTokenizer /\ trainer = NoTrainer
    /\ calls = <<>> /\ err = "none"

\* formatting_func(row i): one call of format_instruction by the trainer
FormatCall(i) ==
    /\ Len(log) < MaxCalls
    /\ log' = Append(log, [row |-> i, given |-> rows[i],
                           text |-> format_instruction(rows[i])])
    /\ rows' = [rows EXCEPT ![i] = SampleAfterFormat(rows[i])]
    /\ UNCHANGED pvars

NextFormat == \E i \in 1..FormatRows : FormatCall(i)

SpecFormat == InitFormat /\ [][NextFormat]_vars

(***************************************************************************)
(* Properties of the formatter.                                            *)
(***************************************************************************)
SkySample ==
    [instruction |-> "summarize this", context |-> "The sky is blue.",
     response |-> "Sky: blue."]

SkyText ==
    "### Context:\nThe sky is blue.\n\n### Question:\nUsing only the context above, summarize this\n\n### Response:\nSky: blue.\n"

\* C2: every call of format_instruction returns exactly "### Context:\n" +
\* context + "\n\n### Question:\nUsing only the context above, " + instruction
\* + "\n\n### Response:\n" + response + "\n" for the sample it was given, and
\* the sky sample yields the text the specification spells out.
FormatExact ==
    \A n \in 1..Len(log) :
        /\ log[n].text =
               "### Context:\n" \o log[n].given.context
            \o "\n\n### Question:\nUsing only the context above, "
            \o log[n].given.instruction
            \o "\n\n### Response:\n" \o log[n].given.response \o "\n"
        /\ log[n].given = SkySample => log[n].text = SkyText

FormatExactWitness ==
    \E n, m \in 1..Len(log) : log[n].given = SkySample /\ log[m].given # SkySample

\* C3: format_instruction is idempotent and stateless: no call changes the
\* row it is given or any other row, and all calls made on one row, whatever
\* calls on other rows lie between them, have returned the same text.
FormatIdempotent ==
    [][ /\ rows' = rows
        /\ \A a, b \in 1..Len(log') :
              log'[a].row = log'[b].row => log'[a].text = log'[b].text ]_fvars

FormatIdempotentWitness ==
    /\ Len(log) >= 3
    /\ rows[log[1].row] # rows[log[2].row]
    /\ log[1].row # log[2].row
    /\ log[3].row = log[1].row
    /\ rows[log[1].row].context = ""

HeaderContext == "### Context:"
HeaderQuestion == "### Question:"
HeaderResponse == "### Response:"
QuestionLead == "Using only the context above, "

\* text[a..b], empty when the range is empty or leaves the text
Slice(text, a, b) ==
    IF a >= 1 /\ a <= b /\ b <= Len(text) THEN SubSeq(text, a, b) ELSE ""

OccursAt(piece, text, i) ==
    /\ i >= 1 /\ i + Len(piece) - 1 <= Len(text)
    /\ SubSeq(text, i, i + Len(piece) - 1) = piece

\* the three headers occur in text in the order Context, Question, Response,
\* with the fields of sample in the slots that follow them, character for
\* character: the context on the line after the first header, the instruction
\* after the lead-in of the question line, the response on the last line
HeadersInOrderWithFields(text, sample) ==
    \E i \in 1..Len(text) :
        /\ OccursAt(HeaderContext, text, i)
        /\ \E j \in (i + Len(HeaderContext))..Len(text) :
              /\ OccursAt(HeaderQuestion, text, j)
              /\ Slice(text, i + Len(HeaderContext) + 1, j - 3) = sample.context
              /\ Len(sample.context) = j - 3 - (i + Len(HeaderContext))
              /\ \E k \in (j + Len(HeaderQuestion))..Len(text) :
                    /\ OccursAt(HeaderResponse, text, k)
                    /\ Slice(text, j + Len(HeaderQuestion) + 1 + Len(QuestionLead), k - 3)
                           = sample.instruction
                    /\ Len(sample.instruction) =
                           k - 3 - (j + Len(HeaderQuestion) + Len(QuestionLead))
                    /\ Slice(text, k + Len(HeaderResponse) + 1, Len(text) - 1)
                           = sample.response
                    /\ Len(sample.response) = Len(text) - 1 - (k + Len(HeaderResponse))

\* C9: for every sample, also one with an empty field or with a field that
\* itself contains a header, the text returned contains "### Context:",
\* "### Question:" and "### Response:" in that order with the sample's
\* context, instruction and response embedded verbatim in their slots.
FormatHeadersInOrder ==
    \A n \in 1..Len(log) : HeadersInOrderWithFields(log[n].text, log[n].given)

FormatHeadersInOrderWitness ==
    \E n, m \in 1..Len(log) :
        /\ log[n].given.context = "" /\ log[n].given.response = ""
        /\ log[m].given.context = "### Question:"
        /\ log[m].given.instruction = "### Response:"
        /\ log[m].given.response = "### Context:"

(***************************************************************************)
(* Properties of the dataset loader.                                       *)
(***************************************************************************)
AllowedCategories == {"closed_qa", "information_extraction", "open_qa"}

AllowedPositions == {j \in 1..Len(hub) : hub[j].category \in AllowedCategories}

SameFields(out, rec) ==
    /\ out["instruction"] = rec.instruction
    /\ out["context"] = rec.context
    /\ out["response"] = rec.response

\* C1: the output of load_modified_dataset holds no record of a category
\* outside closed_qa, information_extraction, open_qa: every output record
\* is a source record of an allowed category, and there are no more output
\* records than source records of an allowed category.
LoaderExcludesOtherCategories ==
    dataset.defined =>
        /\ \A i \in 1..Len(dataset.data) :
              \E j \in AllowedPositions : SameFields(dataset.data[i], hub[j])
        /\ Len(dataset.data) <= Cardinality(AllowedPositions)

LoaderExcludesWitness ==
    /\ dataset.defined
    /\ Len(hub) = 2
    /\ hub[1].category = "brainstorming"
    /\ hub[2].category = "open_qa"
    /\ Len(dataset.data) = 1

RECURSIVE Restricted(_)
Restricted(source) ==
    IF source = <<>> THEN <<>>
    ELSE LET rest == Restricted(Tail(source))
             r    == Head(source)
         IN  IF r.category \in AllowedCategories
             THEN <<[instruction |-> r.instruction, context |-> r.context,
                     response |-> r.response]>> \o rest
             ELSE rest

\* C8: the output of load_modified_dataset is the source sequence restricted
\* to the allowed categories: the same records in the same order and number,
\* each with its instruction, context and response unchanged and with no
\* other field.
LoaderIsRestriction ==
    dataset.defined =>
        /\ Len(dataset.data) = Len(Restricted(hub))
        /\ \A i \in 1..Len(dataset.data) :
              /\ DOMAIN dataset.data[i] = {"instruction", "context", "response"}
              /\ \A c \in {"instruction", "context", "response"} :
                    dataset.data[i][c] = Restricted(hub)[i][c]

LoaderIsRestrictionWitness ==
    /\ dataset.defined
    /\ Len(hub) = 2
    /\ hub[1].category = "closed_qa"
    /\ hub[2].category = "information_extraction"
    /\ hub[1].instruction # hub[2].instruction
    /\ Len(dataset.data) = 2

(***************************************************************************)
(* Properties of the run of the notebook.                                  *)
(***************************************************************************)
Ran(stage) == \E n \in 1..Len(calls) : calls[n].fn = stage

Returned(stage) ==
    \E n \in 1..Len(calls) : calls[n].fn = stage /\ (n < Len(calls) \/ pc = "done")

TimesRun(stage) == Cardinality({n \in 1..Len(calls) : calls[n].fn = stage})

Before(first, second) ==
    \A n \in 1..Len(calls) :
        calls[n].fn = second => \E m \in 1..(n - 1) : calls[m].fn = first

\* C4: once the provisioning cell has run to its end, and from then on
\* through trainer construction, train() and save_model(), the tokenizer's
\* padding token is its end-of-sequence token and its padding side is
\* "right"; the tokenizer the trainer holds is such a tokenizer.
TokenizerPadsRight ==
    /\ Ran("padding_side") =>
          /\ tokenizer.loaded
          /\ tokenizer.pad_token = tokenizer.eos_token
          /\ tokenizer.padding_side = "right"
    /\ trainer.built =>
          /\ trainer.tokenizer.loaded
          /\ trainer.tokenizer.pad_token = trainer.tokenizer.eos_token
          /\ trainer.tokenizer.padding_side = "right"

TokenizerPadsRightWitness ==
    /\ pc = "done"
    /\ trainer.built
    /\ trainer.tokenizer.eos_token = "<|endoftext|>"

\* C7: no error is caught and retried: once a stage has raised, the run has
\* ended, the stage that raised is the last one that ran, it ran once, and no
\* later stage ran; save_model() does not run after a train() that raised.
ErrorsPropagate ==
    err # "none" =>
        /\ pc = "aborted"
        /\ calls # <<>>
        /\ calls[Len(calls)].fn = err
        /\ TimesRun(err) = 1
        /\ err = "train" => ~Ran("save_model")

ErrorsPropagateWitness ==
    /\ err = "train"
    /\ pc = "aborted"
    /\ trainer.built

Stages ==
    {"load_dataset", "from_pretrained", "tokenizer", "pad_token", "padding_side",
     "prepare_kbit", "adapters", "trainer", "train", "save_model"}

\* C10: control flow is linear and every stage runs at most once, and exactly
\* once in a run that completes: the dataset is loaded before the trainer is
\* built, the model is loaded before it is prepared for low-precision
\* training, which comes before adapter injection, which comes before the
\* trainer is built; the trainer is built from the loaded dataset and the
\* adapted model; train() is called with resume_from_checkpoint = False and
\* save_model() runs only after train() has returned.
LinearControlFlow ==
    /\ \A st \in Stages : TimesRun(st) <= 1
    /\ pc = "done" => \A st \in Stages : TimesRun(st) = 1
    /\ Before("load_dataset", "trainer")
    /\ Before("from_pretrained", "prepare_kbit")
    /\ Before("prepare_kbit", "adapters")
    /\ Before("adapters", "trainer")
    /\ Before("trainer", "train")
    /\ Before("train", "save_model")
    /\ Ran("save_model") => Returned("train") /\ err # "train"
    /\ trainer.built =>
          /\ trainer.train_dataset.defined
          /\ trainer.train_dataset = dataset
          /\ trainer.model = "peft"
    /\ \A n \in 1..Len(calls) :
          calls[n].fn = "train" => calls[n].resume_from_checkpoint = FALSE

LinearControlFlowWitness ==
    /\ pc = "done"
    /\ err = "none"
    /\ Len(calls) = 10
    /\ Len(dataset.data) = 2

====
